---- MODULE Spec2Model ----
(***************************************************************************)
(* Streaming speech-recognition subsystem of project-resonance:            *)
(*   - VolcengineASRClient (services/volcengineASR.ts): the streaming      *)
(*     client, its session state and its sequence counter;                 *)
(*   - asr-proxy (Deno edge function): the relay between the caller's      *)
(*     socket and the upstream engine.                                     *)
(*   - useVolcengineASR (hooks/useVolcengineASR.ts): the hook that creates *)
(*     a client per session and captures the microphone.                   *)
(* The client class, the hook with the clients it creates and the relay    *)
(* have each their own specification (SpecClient, SpecHook, SpecRelay)     *)
(* over their own variables.                                               *)
(***************************************************************************)
EXTENDS Integers, Sequences, FiniteSets, TLC

(***************************************************************************)
(* Bounds of the model                                                     *)
(***************************************************************************)
\* connect() calls (= sockets constructed) explored on one client
MaxSockets == 2
\* audio frames transmitted on one socket
MaxAudio == 2
\* frames the server sends to one client
MaxMessages == 2
\* startSession calls on one mounted hook
MaxSessions == 2
\* stopSession calls explored
MaxStops == 1
\* header size, in 4-byte units, of the frames given to the decoder
MaxHeaderUnits == 3
\* code points between the braces of the JSON texts given to the encoder
MaxJsonLen == 2
\* frames the caller sends to the relay on one connection
MaxCallerFrames == 3
\* frames the upstream sends to the relay on one connection
MaxUpstreamFrames == 2

(***************************************************************************)
(* Protocol constants (volcengineASR.ts)                                   *)
(***************************************************************************)
PROTOCOL_VERSION == 1
HEADER_SIZE_1 == 1
HEADER_SIZE_2 == 2
FULL_CLIENT_REQUEST == 1
AUDIO_ONLY_REQUEST == 2
SERVER_FULL_RESPONSE == 9
SERVER_ACK == 11
SERVER_ERROR_RESPONSE == 15
JSON_SERIALIZATION == 1
NO_COMPRESSION == 0
GZIP_COMPRESSION == 1
NO_SEQUENCE == 0
POS_SEQUENCE == 1
NEG_SEQUENCE == 2

\* the value the constructor and connect() give the sequence counter
InitialSequence == 2

\* readyState of a socket is one of "CONNECTING", "OPEN", "CLOSING", "CLOSED",
\* or "NONE" for a socket not constructed (yet).

VARIABLES
  \* ---- VolcengineASRClient ----
  state,            \* this.state
  ws,               \* this.ws: 0 is null, else the id of the socket held
  sequenceCounter,  \* this.sequenceCounter
  nConnects,        \* number of connect() calls so far; call c constructs socket c
  readyState,       \* readyState of every socket
  mustFail,         \* socket was close()d while CONNECTING: its closure is a failure
  opened,           \* the open event of the socket has been delivered
  sent,             \* frames handed to socket.send while it was OPEN, in order
  promise,          \* the promise returned by connect() call c
  closeDue,         \* socket whose close event follows its error event in the same task
  released,         \* disconnect() has closed and forgotten the socket
  nMessages,        \* number of server frames delivered so far
  op,               \* the operation or handler that ran last, and how
  fired,            \* the callbacks it invoked, in order
  \* ---- useVolcengineASR ----
  clientRef,        \* clientRef.current: 0 is null, else the id of the client
  clients,          \* the VolcengineASRClient objects startSession has created
  nSessions,        \* number of startSession calls so far; call k creates client k
  capture,          \* how far session k's audio capture has got
  streamRef,        \* streamRef.current: 0 is null, else the session that got it
  liveStreams,      \* microphone streams whose tracks have not been stopped
  hookState,        \* the hook's state
  hookError,        \* the hook's error
  partialText,      \* the hook's partialText
  finalText,        \* the hook's finalText
  utterances,       \* the hook's utterances
  nStops,           \* number of stopSession calls so far; call i sets interval i
  timers,           \* the waitForResult intervals and what their closures hold
  hookOp,           \* the hook function or handler that ran last, and how
  \* ---- codec ----
  codecIn,          \* the last call of a codec function: which, and its input
  codecOut,         \* what it returned
  \* ---- relay ----
  httpStatus,       \* status of the HTTP response: 0 before the request
  request,          \* the request served
  binaryType,       \* clientWs.binaryType, as the runtime sets it
  clientReady,      \* clientWs.readyState ("NONE" before the upgrade)
  upstream,         \* the closure variable upstream: "null" or "ws"
  upReady,          \* readyState of the upstream WS object ("NONE" before creation)
  upOpened,         \* the open event of the upstream has been delivered
  upErrored,        \* the error event of the upstream has been delivered
  pendingQueue,     \* pendingQueue
  blobPending,      \* Blob messages whose arrayBuffer() has not resolved yet
  upSent,           \* frames handed to upstream.send, in call order
  upWritten,        \* how many of upSent the upstream socket has written out
  clSent,           \* frames handed to clientWs.send, in call order
  arrivals,         \* caller frames received so far (history), in arrival order
  upArrivals,       \* number of upstream frames received so far
  clientCloseCalls, \* codes of the clientWs.close calls made by the relay
  upCloseCalls,     \* number of upstream.close calls made by the relay
  callerGone        \* clientWs.onclose has run

clientVars == <<state, ws, sequenceCounter, nConnects, readyState, mustFail,
                opened, sent, promise, closeDue, released, nMessages, op, fired>>
relayVars == <<httpStatus, request, binaryType, clientReady, upstream, upReady,
               upOpened, upErrored, pendingQueue, blobPending, upSent, upWritten,
               clSent, arrivals, upArrivals, clientCloseCalls, upCloseCalls,
               callerGone>>
textVars == <<partialText, finalText, utterances>>
timerVars == <<nStops, timers>>
hookVars == <<clientRef, clients, nSessions, capture, streamRef, liveStreams,
              hookState, hookError, textVars, timerVars, hookOp>>

codecVars == <<codecIn, codecOut>>

vars == <<clientVars, hookVars, codecVars, relayVars>>

SocketIds == 1..MaxSockets

(***************************************************************************)
(* Frame codec (encoding side)                                             *)
(***************************************************************************)
\* The sequence numbers explored are far inside the signed 32-bit range of
\* DataView.setInt32, so the word written is the number itself.

\* buildFullClientRequest: 8-byte header without sequence, then the JSON
buildFullClientRequest(jsonLen) ==
  [version |-> PROTOCOL_VERSION, headerSize |-> HEADER_SIZE_1,
   messageType |-> FULL_CLIENT_REQUEST, flags |-> NO_SEQUENCE,
   serialization |-> JSON_SERIALIZATION, compression |-> NO_COMPRESSION,
   word |-> jsonLen, len |-> jsonLen]

buildAudioOnlyRequest_NoNegate(audioLen, sequenceNumber, isLast) ==
  [version |-> PROTOCOL_VERSION, headerSize |-> HEADER_SIZE_1,
   messageType |-> AUDIO_ONLY_REQUEST,
   flags |-> IF isLast THEN NEG_SEQUENCE ELSE POS_SEQUENCE,
   serialization |-> NO_COMPRESSION, compression |-> NO_COMPRESSION,
   word |-> sequenceNumber, len |-> audioLen]

\* buildAudioOnlyRequest: bytes 4-7 (word) hold the sequence number, negated
\* on the last chunk; the audio follows at byte 8
buildAudioOnlyRequest(audioLen, sequenceNumber, isLast) ==
  [version |-> PROTOCOL_VERSION, headerSize |-> HEADER_SIZE_1,
   messageType |-> AUDIO_ONLY_REQUEST,
   flags |-> IF isLast THEN NEG_SEQUENCE ELSE POS_SEQUENCE,
   serialization |-> NO_COMPRESSION, compression |-> NO_COMPRESSION,
   word |-> IF isLast THEN -sequenceNumber ELSE sequenceNumber,
   len |-> audioLen]

\* length of the configuration JSON of sendFullClientRequest (its fields are fixed)
ConfigJsonLen == 5
\* the audio passed to sendAudio by its callers, as (length, isLast): a captured
\* block (onaudioprocess) and the empty final chunk (stopSession)
AudioInputs == {<<4, FALSE>>, <<0, TRUE>>}

(***************************************************************************)
(* Texts and bytes                                                         *)
(* A text (a JavaScript string) is the sequence of its code points, a      *)
(* buffer is the sequence of its bytes.                                    *)
(***************************************************************************)
\* null, where a text is expected
NoPayload == <<-1>>

\* U+FFFD, which TextDecoder puts in place of a malformed byte
REPLACEMENT == 65533

\* the UTF-8 bytes of one code point of the basic plane
Utf8_OneByte(c) == <<c % 256>>

Utf8(c) ==
  IF c < 128 THEN <<c>>
  ELSE IF c < 2048 THEN <<192 + (c \div 64), 128 + (c % 64)>>
  ELSE <<224 + (c \div 4096), 128 + ((c \div 64) % 64), 128 + (c % 64)>>

RECURSIVE EncodeRange(_, _, _)
EncodeRange(text, lo, hi) ==
  IF lo > hi THEN <<>>
  ELSE IF lo = hi THEN Utf8(text[lo])
  ELSE EncodeRange(text, lo, (lo + hi) \div 2)
       \o EncodeRange(text, (lo + hi) \div 2 + 1, hi)

\* new TextEncoder().encode(text)
TextEncode(text) == EncodeRange(text, 1, Len(text))

IsContinuation(bytes, i) == i <= Len(bytes) /\ bytes[i] \in 128..191

\* byte i starts a well-formed sequence of two, of three bytes
Lead2(bytes, i) == bytes[i] \in 194..223 /\ IsContinuation(bytes, i + 1)

Lead3(bytes, i) ==
  /\ bytes[i] \in 224..239
  /\ IsContinuation(bytes, i + 1)
  /\ IsContinuation(bytes, i + 2)
  /\ (bytes[i] - 224) * 4096 + (bytes[i + 1] - 128) * 64 >= 2048

\* byte i belongs to the sequence started one or two bytes before it
Continues(bytes, i) ==
  /\ IsContinuation(bytes, i)
  /\ \/ i > 1 /\ (Lead2(bytes, i - 1) \/ Lead3(bytes, i - 1))
     \/ i > 2 /\ Lead3(bytes, i - 2)

\* the code point decoded at byte i: U+FFFD for a byte that starts no
\* well-formed sequence
CodePointAt(bytes, i) ==
  IF bytes[i] < 128 THEN bytes[i]
  ELSE IF Lead2(bytes, i) THEN (bytes[i] - 192) * 64 + (bytes[i + 1] - 128)
  ELSE IF Lead3(bytes, i)
  THEN (bytes[i] - 224) * 4096 + (bytes[i + 1] - 128) * 64 + (bytes[i + 2] - 128)
  ELSE REPLACEMENT

RECURSIVE DecodeRange(_, _, _)
DecodeRange(bytes, lo, hi) ==
  IF lo > hi THEN <<>>
  ELSE IF lo = hi
  THEN IF Continues(bytes, lo) THEN <<>> ELSE <<CodePointAt(bytes, lo)>>
  ELSE DecodeRange(bytes, lo, (lo + hi) \div 2)
       \o DecodeRange(bytes, (lo + hi) \div 2 + 1, hi)

\* new TextDecoder().decode(bytes): UTF-8 sequences of one to three bytes
TextDecode(bytes) == DecodeRange(bytes, 1, Len(bytes))

\* text.replace(/\0+$/, '')
RECURSIVE StripNuls(_)
StripNuls(text) ==
  IF text # <<>> /\ text[Len(text)] = 0
  THEN StripNuls(SubSeq(text, 1, Len(text) - 1))
  ELSE text

\* DataView.setUint32(offset, n, false), for 0 <= n < 2^31
Uint32Bytes(n) ==
  <<n \div 16777216, (n \div 65536) % 256, (n \div 256) % 256, n % 256>>

\* DataView.setInt32(offset, n, false): two's complement
Int32Bytes(n) ==
  IF n >= 0 THEN Uint32Bytes(n)
  ELSE [i \in 1..4 |-> 255 - Uint32Bytes(-n - 1)[i]]

\* buildHeaderNoSeq: the four header bytes, then the payload size
buildHeaderNoSeq(messageType, messageTypeFlags, serializationMethod, compressionType, payloadSize) ==
  <<PROTOCOL_VERSION * 16 + HEADER_SIZE_1, messageType * 16 + messageTypeFlags,
    serializationMethod * 16 + compressionType, 0>>
  \o Uint32Bytes(payloadSize)

\* buildHeaderWithSeq: the four header bytes, the sequence number, then the
\* payload size
buildHeaderWithSeq(messageType, messageTypeFlags, serializationMethod, compressionType, sequenceNumber, payloadSize) ==
  <<PROTOCOL_VERSION * 16 + HEADER_SIZE_2, messageType * 16 + messageTypeFlags,
    serializationMethod * 16 + compressionType, 0>>
  \o Int32Bytes(sequenceNumber) \o Uint32Bytes(payloadSize)

\* buildFullClientRequest, byte by byte, on the text JSON.stringify returned:
\* the header without sequence, then the encoded JSON
buildFullClientRequestBytes(jsonPayload) ==
  LET jsonBytes == TextEncode(jsonPayload)
  IN buildHeaderNoSeq(FULL_CLIENT_REQUEST, NO_SEQUENCE, JSON_SERIALIZATION,
                      NO_COMPRESSION, Len(jsonBytes)) \o jsonBytes

(***************************************************************************)
(* Frame codec (decoding side)                                             *)
(***************************************************************************)
\* the text parseServerResponse returns for a gzip payload:
\* '[gzip compressed - needs decompression]'
GzipSentinel ==
  <<91, 103, 122, 105, 112, 32, 99, 111, 109, 112, 114, 101, 115, 115, 101,
    100, 32, 45, 32, 110, 101, 101, 100, 115, 32, 100, 101, 99, 111, 109,
    112, 114, 101, 115, 115, 105, 111, 110, 93>>

\* what parseServerResponse returns, or that it threw (a DataView read past
\* the end of the buffer throws RangeError)
Parsed(messageType, messageTypeFlags, serializationMethod, compressionType, payload) ==
  [thrown |-> FALSE, messageType |-> messageType,
   messageTypeFlags |-> messageTypeFlags,
   serializationMethod |-> serializationMethod,
   compressionType |-> compressionType, payload |-> payload]

RangeError ==
  [thrown |-> TRUE, messageType |-> 0, messageTypeFlags |-> 0,
   serializationMethod |-> 0, compressionType |-> 0, payload |-> NoPayload]

\* const payloadSizeOffset = headerSize * 4
PayloadSizeOffset_AfterFirstWord(headerSize) == 4

PayloadSizeOffset(headerSize) == headerSize * 4

\* the payload text of a frame whose payload is there in full
PayloadText_Raw(payloadBytes, compressionType) == TextDecode(payloadBytes)

PayloadText(payloadBytes, compressionType) ==
  IF compressionType = GZIP_COMPRESSION
  THEN GzipSentinel
  ELSE StripNuls(TextDecode(payloadBytes))

\* the payload of a frame whose size word holds upper * 65536 + lower: null
\* unless payloadSize > 0 && data.byteLength >= payloadOffset + payloadSize
PayloadOf_WhatIsThere(data, payloadOffset, upper, lower, compressionType) ==
  IF upper = 0 /\ lower > 0 /\ Len(data) > payloadOffset
  THEN PayloadText(SubSeq(data, payloadOffset + 1,
                          IF Len(data) < payloadOffset + lower
                          THEN Len(data) ELSE payloadOffset + lower),
                   compressionType)
  ELSE NoPayload

PayloadOf(data, payloadOffset, upper, lower, compressionType) ==
  IF upper = 0 /\ lower > 0 /\ Len(data) >= payloadOffset + lower
  THEN PayloadText(SubSeq(data, payloadOffset + 1, payloadOffset + lower),
                   compressionType)
  ELSE NoPayload

\* parseServerResponse(data): bytes 0, 1 and 2 are read unconditionally; the
\* payload size is read at headerSize * 4 when the buffer reaches that far.
\* The size is kept as its two 16-bit halves: the buffers explored are
\* shorter than 65536 bytes, so a size with a non-zero upper half never fits
parseServerResponse(data) ==
  IF Len(data) < 3 THEN RangeError
  ELSE LET headerSize == data[1] % 16
           messageType == (data[2] \div 16) % 16
           messageTypeFlags == data[2] % 16
           serializationMethod == (data[3] \div 16) % 16
           compressionType == data[3] % 16
           payloadSizeOffset == PayloadSizeOffset(headerSize)
       IN IF Len(data) < payloadSizeOffset + 4
          THEN Parsed(messageType, messageTypeFlags, serializationMethod,
                      compressionType, NoPayload)
          ELSE LET upper == data[payloadSizeOffset + 1] * 256 + data[payloadSizeOffset + 2]
                   lower == data[payloadSizeOffset + 3] * 256 + data[payloadSizeOffset + 4]
                   payloadOffset == payloadSizeOffset + 4
               IN Parsed(messageType, messageTypeFlags, serializationMethod,
                         compressionType,
                         PayloadOf(data, payloadOffset, upper, lower,
                                   compressionType))

(***************************************************************************)
(* WebSocket.send as the browser implements it: only an OPEN socket takes  *)
(* the frame; a CLOSING or CLOSED socket discards it silently.             *)
(***************************************************************************)
SocketSend(rs, s, frame) ==
  IF rs[s] = "OPEN" THEN [sent EXCEPT ![s] = Append(@, frame)] ELSE sent

(***************************************************************************)
(* VolcengineASRClient                                                     *)
(***************************************************************************)
\* callbacks.onStateChange(st) and callbacks.onError(msg), as entries of fired
StateChange(st) == <<"onStateChange", st>>

Error(msg) == <<"onError", msg>>

\* the texts the client passes to onError
\* 'WebSocket 连接失败'
MsgConnectionFailed ==
  <<87, 101, 98, 83, 111, 99, 107, 101, 116, 32, 36830, 25509, 22833,
    36133>>

\* '无法创建 WebSocket 连接'
MsgCannotCreate ==
  <<26080, 27861, 21019, 24314, 32, 87, 101, 98, 83, 111, 99, 107, 101,
    116, 32, 36830, 25509>>

\* '识别服务返回错误'
MsgServiceError ==
  <<35782, 21035, 26381, 21153, 36820, 22238, 38169, 35823>>

(***************************************************************************)
(* JSON.parse, on the texts the server frames explored here carry          *)
(* A parsed value keeps what handleBinaryMessage looks at: result and      *)
(* payload_msg.result, each with text, definite and utterances. A field is *)
(* <<>> when undefined and <<v>> when it has the value v.                  *)
(***************************************************************************)
\* {"result":{"text":"你好","definite":false}}
TextPartial ==
  <<123, 34, 114, 101, 115, 117, 108, 116, 34, 58, 123, 34, 116, 101, 120,
    116, 34, 58, 34, 20320, 22909, 34, 44, 34, 100, 101, 102, 105, 110,
    105, 116, 101, 34, 58, 102, 97, 108, 115, 101, 125, 125>>

\* {"result":{"text":"你好","definite":true,"utterances":[{"text":"你好","definite":true}]}}
TextFinal ==
  <<123, 34, 114, 101, 115, 117, 108, 116, 34, 58, 123, 34, 116, 101, 120,
    116, 34, 58, 34, 20320, 22909, 34, 44, 34, 100, 101, 102, 105, 110,
    105, 116, 101, 34, 58, 116, 114, 117, 101, 44, 34, 117, 116, 116, 101,
    114, 97, 110, 99, 101, 115, 34, 58, 91, 123, 34, 116, 101, 120, 116,
    34, 58, 34, 20320, 22909, 34, 44, 34, 100, 101, 102, 105, 110, 105,
    116, 101, 34, 58, 116, 114, 117, 101, 125, 93, 125, 125>>

\* {"result":{"text":"你"}}
TextNoDefinite ==
  <<123, 34, 114, 101, 115, 117, 108, 116, 34, 58, 123, 34, 116, 101, 120,
    116, 34, 58, 34, 20320, 34, 125, 125>>

\* {"payload_msg":{"result":{"text":"好","definite":true}}}
TextNested ==
  <<123, 34, 112, 97, 121, 108, 111, 97, 100, 95, 109, 115, 103, 34, 58,
    123, 34, 114, 101, 115, 117, 108, 116, 34, 58, 123, 34, 116, 101, 120,
    116, 34, 58, 34, 22909, 34, 44, 34, 100, 101, 102, 105, 110, 105, 116,
    101, 34, 58, 116, 114, 117, 101, 125, 125, 125>>

\* {}
TextEmptyObject ==
  <<123, 125>>

\* {"result":{"text":
TextNotJson ==
  <<123, 34, 114, 101, 115, 117, 108, 116, 34, 58, 123, 34, 116, 101, 120,
    116, 34, 58>>

\* {"error":"quota"}
TextQuota ==
  <<123, 34, 101, 114, 114, 111, 114, 34, 58, 34, 113, 117, 111, 116, 97, 34, 125>>

\* 你好
NiHao ==
  <<20320, 22909>>

Result(text, definite, utts) ==
  [text |-> text, definite |-> definite, utterances |-> utts]

Value(result, nested) ==
  [threw |-> FALSE, result |-> result, payload_msg |-> nested]

\* JSON.parse throws on a text that is not JSON
SyntaxError == [threw |-> TRUE, result |-> <<>>, payload_msg |-> <<>>]

JSONparse(text) ==
  CASE text = TextPartial ->
         Value(<<Result(<<NiHao>>, <<FALSE>>, <<>>)>>, <<>>)
    [] text = TextFinal ->
         Value(<<Result(<<NiHao>>, <<TRUE>>,
                        <<<<[text |-> NiHao, definite |-> TRUE]>>>>)>>, <<>>)
    [] text = TextNoDefinite ->
         Value(<<Result(<<<<20320>>>>, <<>>, <<>>)>>, <<>>)
    [] text = TextNested ->
         Value(<<>>, <<Result(<<<<22909>>>>, <<TRUE>>, <<>>)>>)
    [] text \in {TextEmptyObject, TextQuota} -> Value(<<>>, <<>>)
    [] OTHER -> SyntaxError

\* a JavaScript value used as a condition: undefined, null and '' are false
Truthy(field) == field # <<>> /\ field[1] # <<>>

\* result?.result?.text || result?.payload_msg?.result?.text || ''
TextOf(value) ==
  IF value.result # <<>> /\ Truthy(value.result[1].text)
  THEN value.result[1].text[1]
  ELSE IF value.payload_msg # <<>> /\ Truthy(value.payload_msg[1].text)
  THEN value.payload_msg[1].text[1]
  ELSE <<>>

\* result?.result?.definite === true || result?.payload_msg?.result?.definite === true
IsDefinite(value) ==
  \/ value.result # <<>> /\ value.result[1].definite = <<TRUE>>
  \/ value.payload_msg # <<>> /\ value.payload_msg[1].definite = <<TRUE>>

\* result?.result?.utterances || result?.payload_msg?.result?.utterances || []
UtterancesOf(value) ==
  IF value.result # <<>> /\ value.result[1].utterances # <<>>
  THEN value.result[1].utterances[1]
  ELSE IF value.payload_msg # <<>> /\ value.payload_msg[1].utterances # <<>>
  THEN value.payload_msg[1].utterances[1]
  ELSE <<>>

\* callbacks.onPartialResult(text) and callbacks.onFinalResult(text, utterances),
\* as entries of fired
PartialResult(text) == <<"onPartialResult", text>>

FinalResult(text, utts) == <<"onFinalResult", text, utts>>

\* A server frame of headerUnits 4-byte units: the header word, the words
\* that follow it in the header, the payload size and the payload
ServerFrame(headerUnits, messageType, messageTypeFlags, compressionType, words, payloadSize, payloadBytes) ==
  <<PROTOCOL_VERSION * 16 + headerUnits, messageType * 16 + messageTypeFlags,
    JSON_SERIALIZATION * 16 + compressionType, 0>>
  \o words \o Uint32Bytes(payloadSize) \o payloadBytes

\* a full-server-response frame carrying text, as the engine sends it
ResultFrame(text) ==
  ServerFrame(HEADER_SIZE_1, SERVER_FULL_RESPONSE, NO_SEQUENCE, NO_COMPRESSION,
              <<>>, Len(TextEncode(text)), TextEncode(text))

\* the first bytes of a gzip stream: what a compressed payload looks like
GzipBytes == <<31, 139, 8, 0, 0>>

GzipFrame ==
  ServerFrame(HEADER_SIZE_1, SERVER_FULL_RESPONSE, NO_SEQUENCE, GZIP_COMPRESSION,
              <<>>, Len(GzipBytes), GzipBytes)

\* a message type the client does not know
UNKNOWN_TYPE == 12

\* The frames that carry no result: an ack, an unknown type, and error
\* frames with and without payload
ControlFrames ==
  {ServerFrame(HEADER_SIZE_1, SERVER_ACK, NO_SEQUENCE, NO_COMPRESSION,
               <<>>, 0, <<>>),
   ServerFrame(HEADER_SIZE_1, UNKNOWN_TYPE, NO_SEQUENCE, NO_COMPRESSION,
               <<>>, Len(TextEncode(TextEmptyObject)), TextEncode(TextEmptyObject)),
   ServerFrame(HEADER_SIZE_1, SERVER_ERROR_RESPONSE, NO_SEQUENCE, NO_COMPRESSION,
               <<>>, Len(TextEncode(TextQuota)), TextEncode(TextQuota)),
   ServerFrame(HEADER_SIZE_1, SERVER_ERROR_RESPONSE, NO_SEQUENCE, NO_COMPRESSION,
               <<>>, 0, <<>>)}

\* The full-server-response frames: results (partial, final, without definite,
\* nested under payload_msg, without result), a result whose payload is not
\* JSON, and a gzip result
ResultFrames ==
  {ResultFrame(TextPartial), ResultFrame(TextFinal), ResultFrame(TextNoDefinite),
   ResultFrame(TextNested), ResultFrame(TextEmptyObject), ResultFrame(TextNotJson),
   GzipFrame}

\* buffers shorter than a header
ShortFrames == {<<>>, <<17>>, <<17, 144>>, <<17, 144, 16>>}

\* a full-server-response frame with a sequence word in its header
SequencedFrame ==
  ServerFrame(HEADER_SIZE_2, SERVER_FULL_RESPONSE, POS_SEQUENCE, NO_COMPRESSION,
              Int32Bytes(2), Len(TextEncode(TextFinal)), TextEncode(TextFinal))

\* frames of at least 4 bytes that end early: inside the header, inside the
\* size word, right after it, or one byte before the end of the payload; and
\* a frame that declares 65536 bytes of payload and holds fewer
TruncatedFrames ==
  {SubSeq(ResultFrame(TextFinal), 1, n) :
     n \in {4, 6, 8, Len(ResultFrame(TextFinal)) - 1}}
  \cup {SubSeq(SequencedFrame, 1, n) : n \in {8, 11, Len(SequencedFrame) - 1}}
  \cup {ServerFrame(HEADER_SIZE_1, SERVER_FULL_RESPONSE, NO_SEQUENCE,
                    NO_COMPRESSION, <<>>, 65536, TextEncode(TextFinal))}

\* The frames delivered to the client
ServerFrames ==
  ControlFrames \cup ResultFrames \cup ShortFrames \cup TruncatedFrames

\* What a callback does besides recording its argument: nothing ("none"), or it
\* calls disconnect() from inside onStateChange('error') ("inStateChange") or
\* from inside onError ("inOnError")
Reentries == {"none", "inStateChange", "inOnError"}

\* data is the frame an onmessage handled, arg the payload decoded from it
Op(name, s, re) ==
  [name |-> name, s |-> s, re |-> re, arg |-> NoPayload, data |-> <<>>]

ClientInit ==
  /\ state = "idle"
  /\ ws = 0
  /\ sequenceCounter = InitialSequence
  /\ nConnects = 0
  /\ readyState = [s \in SocketIds |-> "NONE"]
  /\ mustFail = [s \in SocketIds |-> FALSE]
  /\ opened = [s \in SocketIds |-> FALSE]
  /\ sent = [s \in SocketIds |-> <<>>]
  /\ promise = [s \in SocketIds |-> "none"]
  /\ closeDue = 0
  /\ released = [s \in SocketIds |-> FALSE]
  /\ nMessages = 0
  /\ op = Op("new", 0, "none")
  /\ fired = <<>>

\* WebSocket.close(): CONNECTING fails the connection, OPEN starts the closing
\* handshake; in both cases readyState becomes CLOSING at once
SocketClose(rs, s) ==
  IF rs[s] \in {"CONNECTING", "OPEN"} THEN [rs EXCEPT ![s] = "CLOSING"] ELSE rs

\* settle a promise: only a pending promise changes
Settle(p, c, outcome) ==
  IF p[c] = "pending" THEN [p EXCEPT ![c] = outcome] ELSE p

\* The client's part of the state that a handler works on, as a record
Client == [ws |-> ws, state |-> state, rs |-> readyState, mf |-> mustFail,
           rel |-> released, fired |-> <<>>]

\* setState(st): this.state = st; callbacks.onStateChange(st)
setState(c, st) == [c EXCEPT !.state = st, !.fired = Append(@, StateChange(st))]

Disconnected_OnlyWhenHeld(c) ==
  IF c.ws # 0
  THEN setState([c EXCEPT !.rs = SocketClose(c.rs, c.ws),
                          !.mf = IF c.rs[c.ws] = "CONNECTING"
                                 THEN [c.mf EXCEPT ![c.ws] = TRUE] ELSE c.mf,
                          !.rel = [c.rel EXCEPT ![c.ws] = TRUE],
                          !.ws = 0], "idle")
  ELSE c

\* disconnect() applied to c: if (this.ws) { this.ws.close(); this.ws = null },
\* then setState('idle')
Disconnected(c) ==
  setState(IF c.ws # 0
           THEN [c EXCEPT !.rs = SocketClose(c.rs, c.ws),
                          !.mf = IF c.rs[c.ws] = "CONNECTING"
                                 THEN [c.mf EXCEPT ![c.ws] = TRUE] ELSE c.mf,
                          !.rel = [c.rel EXCEPT ![c.ws] = TRUE],
                          !.ws = 0]
           ELSE c, "idle")

\* the client's fields after a handler that left them as c
Becomes(c) ==
  /\ ws' = c.ws
  /\ state' = c.state
  /\ readyState' = c.rs
  /\ mustFail' = c.mf
  /\ released' = c.rel
  /\ fired' = c.fired

\* disconnect(): closes and forgets the socket held, then setState('idle')
disconnect ==
  /\ closeDue = 0
  /\ Becomes(Disconnected(Client))
  /\ op' = Op("disconnect", ws, "none")
  /\ UNCHANGED <<sequenceCounter, nConnects, opened, sent, promise, closeDue,
                 nMessages>>
  /\ UNCHANGED <<hookVars, codecVars, relayVars>>

\* this.ws = new WebSocket(wsUrl): socket s exists, connecting, and is held
NewWebSocket_AndSpare(c, s) ==
  [c EXCEPT !.rs = [t \in SocketIds |->
                      IF t = s \/ t = s + 1 THEN "CONNECTING" ELSE c.rs[t]],
            !.ws = s]

NewWebSocket(c, s) == [c EXCEPT !.rs = [c.rs EXCEPT ![s] = "CONNECTING"], !.ws = s]

\* connect(): disconnect() when a socket is held, reset the counter,
\* setState('connecting'), construct the socket and install its handlers;
\* when the constructor throws, setState('error'), onError and reject
connect(constructs) ==
  /\ closeDue = 0
  /\ nConnects < MaxSockets
  /\ LET c == nConnects + 1
         c1 == setState(IF ws # 0 THEN Disconnected(Client) ELSE Client,
                        "connecting")
     IN /\ nConnects' = c
        /\ sequenceCounter' = InitialSequence
        /\ op' = Op("connect", c, "none")
        /\ IF constructs
           THEN /\ Becomes(NewWebSocket(c1, c))
                /\ promise' = [promise EXCEPT ![c] = "pending"]
           ELSE /\ Becomes([setState(c1, "error") EXCEPT
                              !.fired = Append(@, Error(MsgCannotCreate))])
                /\ promise' = [promise EXCEPT ![c] = "rejected"]
  /\ UNCHANGED <<opened, sent, closeDue, nMessages>>
  /\ UNCHANGED <<hookVars, codecVars, relayVars>>

\* sendFullClientRequest: this.ws?.send(message), on the socket the client
\* holds; rs is the readyState of the sockets at that moment
sendFullClientRequest_NoSend(rs) == sent

sendFullClientRequest(rs) ==
  IF ws # 0 THEN SocketSend(rs, ws, buildFullClientRequest(ConfigJsonLen)) ELSE sent

\* ws.onopen: setState('connected'), sendFullClientRequest (which ends with
\* setState('recognizing')), resolve()
onopen(s) ==
  /\ closeDue = 0
  /\ readyState[s] = "CONNECTING"
  /\ LET c1 == [Client EXCEPT !.rs = [readyState EXCEPT ![s] = "OPEN"]]
     IN /\ sent' = sendFullClientRequest(c1.rs)
        /\ Becomes(setState(setState(c1, "connected"), "recognizing"))
  /\ opened' = [opened EXCEPT ![s] = TRUE]
  /\ promise' = Settle(promise, s, "resolved")
  /\ op' = Op("onopen", s, "none")
  /\ UNCHANGED <<sequenceCounter, nConnects, closeDue, nMessages>>
  /\ UNCHANGED <<hookVars, codecVars, relayVars>>

\* this.sequenceCounter++ of sendAudio
NextSequence_StopAtLast(seq, isLast) == IF isLast THEN seq ELSE seq + 1

NextSequence(seq, isLast) == seq + 1

\* sendAudio(audioData, isLast): returns without sending unless the socket held
\* is OPEN; else sends the frame built from the counter and increments it
sendAudio(audioLen, isLast) ==
  /\ closeDue = 0
  /\ sequenceCounter < InitialSequence + MaxAudio
  /\ IF ws = 0 \/ readyState[IF ws = 0 THEN 1 ELSE ws] # "OPEN"
     THEN UNCHANGED <<sent, sequenceCounter>>
     ELSE /\ sent' = SocketSend(readyState, ws,
                        buildAudioOnlyRequest(audioLen, sequenceCounter, isLast))
          /\ sequenceCounter' = NextSequence(sequenceCounter, isLast)
  /\ op' = Op("sendAudio", ws, "none")
  /\ fired' = <<>>
  /\ UNCHANGED <<state, ws, nConnects, readyState, mustFail, opened, promise,
                 closeDue, released, nMessages>>
  /\ UNCHANGED <<hookVars, codecVars, relayVars>>

\* a callback that calls disconnect() when it is the one that re-enters
Callback(c, entry, re, here) ==
  LET c1 == [c EXCEPT !.fired = Append(@, entry)]
  IN IF re = here THEN Disconnected(c1) ELSE c1

ErrorHandled_StateSetLast(c, msg, re) ==
  [Callback(Callback(c, StateChange("error"), re, "inStateChange"),
            Error(msg), re, "inOnError") EXCEPT !.state = "error"]

\* setState('error') and then callbacks.onError(msg), as ws.onerror runs them
ErrorHandled(c, msg, re) ==
  Callback(Callback([c EXCEPT !.state = "error"],
                    StateChange("error"), re, "inStateChange"),
           Error(msg), re, "inOnError")

\* ws.onerror: the connection of socket s failed (while connecting, while open,
\* or after close() on a connecting socket). The browser sets readyState to
\* CLOSED, fires error and then, in the same task, close.
\* Handler: setState('error'), onError, reject
onerror(s, re) ==
  /\ closeDue = 0
  /\ readyState[s] \in {"CONNECTING", "OPEN", "CLOSING"}
  /\ Becomes(ErrorHandled([Client EXCEPT !.rs = [readyState EXCEPT ![s] = "CLOSED"]],
                          MsgConnectionFailed, re))
  /\ promise' = Settle(promise, s, "rejected")
  /\ closeDue' = s
  /\ op' = Op("onerror", s, re)
  /\ UNCHANGED <<sequenceCounter, nConnects, opened, sent, nMessages>>
  /\ UNCHANGED <<hookVars, codecVars, relayVars>>

\* ws.onclose: the close event of socket s, either right after its error event
\* or for a clean closure (by the server, or completing a close() on an open
\* socket). Handler: if (this.state !== 'idle') setState('idle')
onclose(s) ==
  /\ \/ closeDue = s
     \/ /\ closeDue = 0
        /\ \/ readyState[s] = "OPEN"
           \/ readyState[s] = "CLOSING" /\ ~mustFail[s]
  /\ LET c1 == [Client EXCEPT !.rs = [readyState EXCEPT ![s] = "CLOSED"]]
     IN Becomes(IF state # "idle" THEN setState(c1, "idle") ELSE c1)
  /\ closeDue' = 0
  /\ op' = Op(IF closeDue = s THEN "onclose-after-error" ELSE "onclose", s, "none")
  /\ UNCHANGED <<sequenceCounter, nConnects, opened, sent, promise, nMessages>>
  /\ UNCHANGED <<hookVars, codecVars, relayVars>>

\* ws.onclose for a socket that has not opened and whose closure comes with no
\* error event: the closure of a connecting socket, or of one closed by
\* close() while connecting. The handler is the same: setState('idle') unless
\* the state is idle; it does not settle the promise of connect()
oncloseUnopened(s) ==
  /\ closeDue = 0
  /\ \/ readyState[s] = "CONNECTING"
     \/ readyState[s] = "CLOSING" /\ mustFail[s]
  /\ LET c1 == [Client EXCEPT !.rs = [readyState EXCEPT ![s] = "CLOSED"]]
     IN Becomes(IF state # "idle" THEN setState(c1, "idle") ELSE c1)
  /\ op' = Op("onclose-unopened", s, "none")
  /\ UNCHANGED <<sequenceCounter, nConnects, opened, sent, promise, closeDue,
                 nMessages>>
  /\ UNCHANGED <<hookVars, codecVars, relayVars>>

\* the text handleBinaryMessage passes to onError for a server-error frame:
\* response.payload || the fixed text
ServiceErrorText_PayloadOnly(response) == response.payload

ServiceErrorText(response) ==
  IF response.payload # NoPayload /\ response.payload # <<>>
  THEN response.payload ELSE MsgServiceError

\* catch (parseErr) { console.warn(...) }
ParseFailed_Escalates(c) == [c EXCEPT !.fired = Append(@, Error(MsgServiceError))]

ParseFailed(c) == c

\* the SERVER_FULL_RESPONSE branch: nothing without a payload, the catch when
\* JSON.parse throws, else onFinalResult or onPartialResult
ResultHandled_BothCallbacks(c, response) ==
  IF response.payload = NoPayload \/ response.payload = <<>> THEN c
  ELSE IF JSONparse(response.payload).threw THEN ParseFailed(c)
  ELSE LET result == JSONparse(response.payload)
           partial == [c EXCEPT !.fired = Append(@, PartialResult(TextOf(result)))]
       IN IF IsDefinite(result)
          THEN [partial EXCEPT !.fired =
                  Append(@, FinalResult(TextOf(result), UtterancesOf(result)))]
          ELSE partial

ResultHandled(c, response) ==
  IF response.payload = NoPayload \/ response.payload = <<>> THEN c
  ELSE IF JSONparse(response.payload).threw THEN ParseFailed(c)
  ELSE LET result == JSONparse(response.payload)
       IN [c EXCEPT !.fired =
             Append(@, IF IsDefinite(result)
                       THEN FinalResult(TextOf(result), UtterancesOf(result))
                       ELSE PartialResult(TextOf(result)))]

\* the branch handleBinaryMessage takes on a message type
Branch_UnknownIsError(messageType) ==
  CASE messageType = SERVER_FULL_RESPONSE -> "result"
    [] messageType = SERVER_ACK -> "ack"
    [] OTHER -> "error"

Branch(messageType) ==
  CASE messageType = SERVER_FULL_RESPONSE -> "result"
    [] messageType = SERVER_ACK -> "ack"
    [] messageType = SERVER_ERROR_RESPONSE -> "error"
    [] OTHER -> "unknown"

\* data.byteLength < 4
TooShort(data) == Len(data) < 4

\* parseServerResponse on the frames delivered, computed once
Responses == [data \in ServerFrames |-> parseServerResponse(data)]

\* handleBinaryMessage(data): drop a frame shorter than 4 bytes, else parse it
\* and branch on its message type; an ack and an unknown type are only logged,
\* and so is anything parseServerResponse throws
handleBinaryMessage(c, data, re) ==
  IF TooShort(data) THEN c
  ELSE LET response == Responses[data]
       IN IF response.thrown THEN c
          ELSE IF Branch(response.messageType) = "result"
          THEN ResultHandled(c, response)
          ELSE IF Branch(response.messageType) = "error"
          THEN Callback(c, Error(ServiceErrorText(response)), re, "inOnError")
          ELSE c

\* the frame is a server-error frame handleBinaryMessage reports
IsErrorFrame(data) ==
  /\ ~TooShort(data)
  /\ Responses[data].messageType = SERVER_ERROR_RESPONSE

\* ws.onmessage: a binary frame arrives on socket s while it is OPEN
\* (binaryType is 'arraybuffer', so handleMessage passes it on at once)
onmessage(s, data, re) ==
  /\ closeDue = 0
  /\ readyState[s] = "OPEN"
  /\ nMessages < MaxMessages
  /\ re \in {"none", "inOnError"}
  /\ re # "none" => IsErrorFrame(data)
  /\ nMessages' = nMessages + 1
  /\ Becomes(handleBinaryMessage(Client, data, re))
  /\ op' = [Op(IF IsErrorFrame(data) THEN "onmessage-error" ELSE "onmessage",
               s, re)
              EXCEPT !.arg = Responses[data].payload,
                     !.data = data]
  /\ UNCHANGED <<sequenceCounter, nConnects, opened, sent, promise, closeDue>>
  /\ UNCHANGED <<hookVars, codecVars, relayVars>>

(***************************************************************************)
(* useVolcengineASR (hooks/useVolcengineASR.ts), real mode                 *)
(* Every startSession creates a VolcengineASRClient and calls connect() on *)
(* it once, so client k holds at most socket k. All clients are given the  *)
(* same callbacks, which set the hook's state and error.                   *)
(***************************************************************************)
SessionIds == 1..MaxSessions

\* null, where the error text is expected
NoError == NoPayload

\* '无法访问麦克风，请检查权限设置'
MsgMicrophone ==
  <<26080, 27861, 35775, 38382, 40614, 20811, 39118, 65292, 35831, 26816,
    26597, 26435, 38480, 35774, 32622>>

\* new VolcengineASRClient(config, callbacks)
NewClient ==
  [ws |-> 0, state |-> "idle",
   rs |-> [s \in SessionIds |-> "NONE"],
   mf |-> [s \in SessionIds |-> FALSE],
   rel |-> [s \in SessionIds |-> FALSE],
   lastSent |-> FALSE,
   fired |-> <<>>]

StopIds == 1..MaxStops

\* const maxWait = 8000; const checkInterval = 200
maxWait == 8000

checkInterval == 200

\* no interval: before stopSession call i, and after its clearInterval.
\* waited and final are what the closure holds; session is the client that
\* was in clientRef when stopSession ran, quiet that no frame came since
NoTimer ==
  [active |-> FALSE, waited |-> 0, final |-> FALSE, quiet |-> TRUE, session |-> 0]

\* what ran last: its name, the client or interval it ran for, the frame it
\* was given and the callbacks the client invoked in it
HookOp(name, k, data, f) == [name |-> name, k |-> k, data |-> data, fired |-> f]

HookInit ==
  /\ clientRef = 0
  /\ clients = [k \in SessionIds |-> NewClient]
  /\ nSessions = 0
  /\ capture = [k \in SessionIds |-> "none"]
  /\ streamRef = 0
  /\ liveStreams = {}
  /\ hookState = "idle"
  /\ hookError = NoError
  /\ partialText = <<>>
  /\ finalText = <<>>
  /\ utterances = <<>>
  /\ nStops = 0
  /\ timers = [i \in StopIds |-> NoTimer]
  /\ hookOp = HookOp("none", 0, <<>>, <<>>)

\* the argument of the last callback of the given name in f, else old
LastArg(f, name, old) ==
  LET I == {i \in 1..Len(f) : f[i][1] = name}
  IN IF I = {} THEN old ELSE f[CHOOSE i \in I : \A j \in I : j <= i][2]

\* the hook's texts
Texts == [partialText |-> partialText, finalText |-> finalText,
          utterances |-> utterances]

NoTexts == [partialText |-> <<>>, finalText |-> <<>>, utterances |-> <<>>]

\* onPartialResult: (text) => setPartialText(text)
onPartialResult(t, text) == [t EXCEPT !.partialText = text]

\* onFinalResult: (text, utts) => { setFinalText(text); setPartialText('');
\* setUtterances(utts) }
onFinalResult_KeepsPartial(t, text, utts) ==
  [t EXCEPT !.finalText = text, !.utterances = utts]

onFinalResult(t, text, utts) ==
  [t EXCEPT !.finalText = text, !.partialText = <<>>, !.utterances = utts]

\* the texts after the callbacks f, in order
RECURSIVE Delivered(_, _)
Delivered(t, f) ==
  IF f = <<>> THEN t
  ELSE Delivered(CASE Head(f)[1] = "onPartialResult" ->
                        onPartialResult(t, Head(f)[2])
                   [] Head(f)[1] = "onFinalResult" ->
                        onFinalResult(t, Head(f)[2], Head(f)[3])
                   [] OTHER -> t,
                 Tail(f))

TextsBecome(t) ==
  /\ partialText' = t.partialText
  /\ finalText' = t.finalText
  /\ utterances' = t.utterances

\* the callbacks given to every client: onStateChange: (s) => setState(s),
\* onError: (err) => setError(err); c is the client after its handler ran
Rendered(c, k, st, err) ==
  /\ clients' = [clients EXCEPT ![k] = [c EXCEPT !.fired = <<>>]]
  /\ hookState' = LastArg(c.fired, "onStateChange", st)
  /\ hookError' = LastArg(c.fired, "onError", err)

\* startSession, real mode: clear the error and the texts, create a client, store it in
\* clientRef and await its connect(); the capture starts once that resolves
startSession(constructs) ==
  /\ nSessions < MaxSessions
  /\ LET k == nSessions + 1
         c1 == setState(NewClient, "connecting")
     IN /\ nSessions' = k
        /\ clientRef' = k
        /\ IF constructs
           THEN /\ Rendered([c1 EXCEPT !.rs = [c1.rs EXCEPT ![k] = "CONNECTING"],
                                       !.ws = k], k, hookState, NoError)
                /\ capture' = [capture EXCEPT ![k] = "awaited"]
           ELSE /\ Rendered([setState(c1, "error") EXCEPT
                               !.fired = Append(@, Error(MsgCannotCreate))],
                            k, hookState, NoError)
                /\ UNCHANGED capture
        /\ hookOp' = HookOp("startSession", k, <<>>, <<>>)
  /\ TextsBecome(NoTexts)
  /\ UNCHANGED <<streamRef, liveStreams, timerVars>>
  /\ UNCHANGED <<clientVars, codecVars, relayVars>>

\* ws.onopen of client k, whose resolve() lets startSession go on to
\* startAudioCapture, which asks for the microphone
hookOnopen(k) ==
  /\ clients[k].rs[k] = "CONNECTING"
  /\ Rendered(setState(setState([clients[k] EXCEPT !.rs[k] = "OPEN"],
                                "connected"), "recognizing"),
              k, hookState, hookError)
  /\ capture' = [capture EXCEPT ![k] = "requested"]
  /\ hookOp' = HookOp("onopen", k, <<>>, <<>>)
  /\ UNCHANGED <<clientRef, nSessions, streamRef, liveStreams, textVars, timerVars>>
  /\ UNCHANGED <<clientVars, codecVars, relayVars>>

\* getUserMedia settles: startAudioCapture stores the stream and the nodes in
\* the refs, or on refusal sets the hook's error and state
getUserMedia(k, granted) ==
  /\ capture[k] = "requested"
  /\ capture' = [capture EXCEPT ![k] = "done"]
  /\ IF granted
     THEN /\ streamRef' = k
          /\ liveStreams' = liveStreams \cup {k}
          /\ UNCHANGED <<hookState, hookError>>
     ELSE /\ hookError' = MsgMicrophone
          /\ hookState' = "error"
          /\ UNCHANGED <<streamRef, liveStreams>>
  /\ hookOp' = HookOp("getUserMedia", k, <<>>, <<>>)
  /\ UNCHANGED <<clientRef, clients, nSessions, textVars, timerVars>>
  /\ UNCHANGED <<clientVars, codecVars, relayVars>>

\* the connection of client k's socket fails: ws.onerror and, in the same
\* task, ws.onclose; the rejected connect() ends startSession in its catch
hookOnerror(k) ==
  /\ clients[k].rs[k] \in {"CONNECTING", "OPEN", "CLOSING"}
  /\ LET c1 == ErrorHandled([clients[k] EXCEPT !.rs[k] = "CLOSED"],
                            MsgConnectionFailed, "none")
     IN Rendered(IF c1.state # "idle" THEN setState(c1, "idle") ELSE c1,
                 k, hookState, hookError)
  /\ capture' = [capture EXCEPT ![k] = IF @ = "awaited" THEN "none" ELSE @]
  /\ hookOp' = HookOp("onerror", k, <<>>, <<>>)
  /\ UNCHANGED <<clientRef, nSessions, streamRef, liveStreams, textVars, timerVars>>
  /\ UNCHANGED <<clientVars, codecVars, relayVars>>

\* ws.onclose of client k for a clean closure
hookOnclose(k) ==
  /\ \/ clients[k].rs[k] = "OPEN"
     \/ clients[k].rs[k] = "CLOSING" /\ ~clients[k].mf[k]
  /\ LET c1 == [clients[k] EXCEPT !.rs[k] = "CLOSED"]
     IN Rendered(IF c1.state # "idle" THEN setState(c1, "idle") ELSE c1,
                 k, hookState, hookError)
  /\ hookOp' = HookOp("onclose", k, <<>>, <<>>)
  /\ UNCHANGED <<clientRef, nSessions, capture, streamRef, liveStreams, textVars,
                 timerVars>>
  /\ UNCHANGED <<clientVars, codecVars, relayVars>>

\* cleanupAudioCapture: stops the tracks of the stream in streamRef and
\* clears the refs
cleanupAudioCapture(live) == live \ {streamRef}

\* the frames the hook's clients are sent
HookFrames ==
  {ResultFrame(TextPartial), ResultFrame(TextFinal),
   ServerFrame(HEADER_SIZE_1, SERVER_ERROR_RESPONSE, NO_SEQUENCE, NO_COMPRESSION,
               <<>>, Len(TextEncode(TextQuota)), TextEncode(TextQuota))}

\* ws.onmessage of client k: handleBinaryMessage, whose callbacks set the
\* hook's texts, error and state
hookOnmessage(k, data) ==
  /\ clients[k].rs[k] = "OPEN"
  /\ LET c1 == handleBinaryMessage(clients[k], data, "none")
     IN /\ Rendered(c1, k, hookState, hookError)
        /\ TextsBecome(Delivered(Texts, c1.fired))
        /\ hookOp' = HookOp("onmessage", k, data, c1.fired)
  /\ timers' = [i \in StopIds |-> [timers[i] EXCEPT !.quiet = ~timers[i].active]]
  /\ UNCHANGED <<clientRef, nSessions, capture, streamRef, liveStreams, nStops>>
  /\ UNCHANGED <<clientVars, codecVars, relayVars>>

\* stopSession, real mode: send the last (empty) audio frame on the client in
\* clientRef, release the capture and set the interval that waits for the
\* final result; its closure holds the finalText of the render stopSession
\* comes from
stopSession ==
  /\ nStops < MaxStops
  /\ nStops' = nStops + 1
  /\ clients' = IF clientRef # 0 /\ clients[clientRef].rs[clientRef] = "OPEN"
                THEN [clients EXCEPT ![clientRef].lastSent = TRUE]
                ELSE clients
  /\ liveStreams' = cleanupAudioCapture(liveStreams)
  /\ streamRef' = 0
  /\ timers' = [timers EXCEPT ![nStops + 1] =
                  [active |-> TRUE, waited |-> 0, final |-> finalText # <<>>,
                   quiet |-> TRUE, session |-> clientRef]]
  /\ hookOp' = HookOp("stopSession", clientRef, <<>>, <<>>)
  /\ UNCHANGED <<clientRef, nSessions, capture, hookState, hookError, textVars>>
  /\ UNCHANGED <<clientVars, codecVars, relayVars>>

\* the interval's callback: waited += checkInterval; once the closure's
\* finalText is set or waited >= maxWait, clearInterval and disconnect() the
\* client in clientRef
tick(i) ==
  /\ timers[i].active
  /\ LET waited == timers[i].waited + checkInterval
     IN IF timers[i].final \/ waited >= maxWait
        THEN /\ timers' = [timers EXCEPT ![i] = NoTimer]
             /\ IF clientRef # 0
                THEN /\ Rendered(Disconnected(clients[clientRef]), clientRef,
                                 hookState, hookError)
                     /\ hookOp' = HookOp("tick", i, <<>>,
                                         Disconnected(clients[clientRef]).fired)
                     /\ clientRef' = 0
                ELSE /\ hookOp' = HookOp("tick", i, <<>>, <<>>)
                     /\ UNCHANGED <<clientRef, clients, hookState, hookError>>
        ELSE /\ timers' = [timers EXCEPT ![i].waited = waited]
             /\ hookOp' = HookOp("tick", i, <<>>, <<>>)
             /\ UNCHANGED <<clientRef, clients, hookState, hookError>>
  /\ UNCHANGED <<nSessions, capture, streamRef, liveStreams, textVars, nStops>>
  /\ UNCHANGED <<clientVars, codecVars, relayVars>>

\* reset: disconnect() the client in clientRef, clear clientRef, release the
\* capture, set the state idle and clear the texts and the error
reset ==
  /\ clients' = IF clientRef # 0
                THEN [clients EXCEPT ![clientRef] =
                        [Disconnected(@) EXCEPT !.fired = <<>>]]
                ELSE clients
  /\ clientRef' = 0
  /\ liveStreams' = cleanupAudioCapture(liveStreams)
  /\ streamRef' = 0
  /\ hookState' = "idle"
  /\ hookError' = NoError
  /\ TextsBecome(NoTexts)
  /\ hookOp' = HookOp("reset", clientRef, <<>>, <<>>)
  /\ UNCHANGED <<nSessions, capture, timerVars>>
  /\ UNCHANGED <<clientVars, codecVars, relayVars>>

(***************************************************************************)
(* The codec functions called on their own (they are exported as protocol) *)
(***************************************************************************)
CodecInit ==
  /\ codecIn = [call |-> "none"]
  /\ codecOut = RangeError

\* bytes the short buffers are made of
ByteSamples == {0, 17, 144}

\* every buffer of fewer than 4 bytes over ByteSamples
ShortBuffers ==
  UNION {[1..n -> ByteSamples] : n \in 0..3}

\* the words between the header word and the payload size: sequence numbers
WordSamples == {Int32Bytes(2), Int32Bytes(-3)}

RECURSIVE Flatten(_)
Flatten(seqs) == IF seqs = <<>> THEN <<>> ELSE Head(seqs) \o Flatten(Tail(seqs))

\* payloads: none, a JSON text, a text of three-byte characters, texts that
\* end in NUL bytes
BodySamples == {<<>>, TextEncode(TextEmptyObject), TextEncode(NiHao),
                <<123, 125, 0, 0>>, <<0>>}

\* parseServerResponse(data) on a buffer shorter than 4 bytes
parseShort(data) ==
  /\ codecIn' = [call |-> "parse", data |-> data]
  /\ codecOut' = parseServerResponse(data)
  /\ UNCHANGED <<clientVars, hookVars, relayVars>>

\* parseServerResponse(data) on a frame of headerUnits units that declares
\* payloadSize bytes of payload and carries body
parseFrame(headerUnits, words, compressionType, payloadSize, body) ==
  /\ codecIn' = [call |-> "parse",
                 data |-> ServerFrame(headerUnits, SERVER_FULL_RESPONSE,
                                      IF headerUnits = 1 THEN NO_SEQUENCE
                                      ELSE POS_SEQUENCE,
                                      compressionType, Flatten(words),
                                      payloadSize, body),
                 headerUnits |-> headerUnits, words |-> words,
                 compressionType |-> compressionType,
                 payloadSize |-> payloadSize, body |-> body]
  /\ codecOut' = parseServerResponse(codecIn'.data)
  /\ UNCHANGED <<clientVars, hookVars, relayVars>>

\* the texts JSON.stringify returns for an object: braces around code points
\* that are not control characters (JSON.stringify escapes those)
JsonChars == {34, 97, 20320}

JsonTexts ==
  {<<123>> \o middle \o <<125>> :
     middle \in UNION {[1..n -> JsonChars] : n \in 0..MaxJsonLen}}

\* parseServerResponse(buildFullClientRequest(reqParams)), where jsonPayload is
\* JSON.stringify(reqParams)
roundTrip(jsonPayload) ==
  /\ codecIn' = [call |-> "roundTrip", text |-> jsonPayload,
                 data |-> buildFullClientRequestBytes(jsonPayload)]
  /\ codecOut' = parseServerResponse(codecIn'.data)
  /\ UNCHANGED <<clientVars, hookVars, relayVars>>

CodecNext ==
  \/ \E data \in ShortBuffers : parseShort(data)
  \/ \E headerUnits \in 1..MaxHeaderUnits, compressionType \in {NO_COMPRESSION, GZIP_COMPRESSION},
        body \in BodySamples :
       \E words \in [1..headerUnits - 1 -> WordSamples],
          payloadSize \in {0, Len(body), Len(body) + 1} :
         parseFrame(headerUnits, words, compressionType, payloadSize, body)
  \/ \E jsonPayload \in JsonTexts : roundTrip(jsonPayload)

(***************************************************************************)
(* Relay (asr-proxy)                                                       *)
(***************************************************************************)
\* values of the Upgrade request header; "" is a request without the header
UpgradeValues == {"", "websocket", "WebSocket", "h2c"}

Requests == [upgrade : UpgradeValues, appKey : BOOLEAN, accessKey : BOOLEAN]

\* String.prototype.toLowerCase on the header values above
toLowerCase(v) == IF v = "WebSocket" THEN "websocket" ELSE v

RelayInit ==
  /\ httpStatus = 0
  /\ request = [upgrade |-> "", appKey |-> FALSE, accessKey |-> FALSE]
  /\ binaryType = "blob"
  /\ clientReady = "NONE"
  /\ upstream = "null"
  /\ upReady = "NONE"
  /\ upOpened = FALSE
  /\ upErrored = FALSE
  /\ pendingQueue = <<>>
  /\ blobPending = <<>>
  /\ upSent = <<>>
  /\ upWritten = 0
  /\ clSent = <<>>
  /\ arrivals = <<>>
  /\ upArrivals = 0
  /\ clientCloseCalls = <<>>
  /\ upCloseCalls = 0
  /\ callerGone = FALSE

Init == ClientInit /\ HookInit /\ CodecInit /\ RelayInit

ServeStatus_CredentialsFirst(req) ==
  IF ~req.appKey \/ ~req.accessKey THEN 500
  ELSE IF toLowerCase(req.upgrade) # "websocket" THEN 426
  ELSE 101

\* the checks of the Deno.serve handler, in its order: 426 without a websocket
\* upgrade, 500 without both credentials, else the upgrade (101)
ServeStatus(req) ==
  IF toLowerCase(req.upgrade) # "websocket" THEN 426
  ELSE IF ~req.appKey \/ ~req.accessKey THEN 500
  ELSE 101

\* Deno.serve handler: answers the request; on an upgrade the caller socket
\* exists (still connecting) and delivers binary messages as bt
Serve(req, bt) ==
  /\ httpStatus = 0
  /\ request' = req
  /\ httpStatus' = ServeStatus(req)
  /\ IF ServeStatus(req) = 101
     THEN clientReady' = "CONNECTING" /\ binaryType' = bt
     ELSE UNCHANGED <<clientReady, binaryType>>
  /\ UNCHANGED <<upstream, upReady, upOpened, upErrored, pendingQueue, blobPending,
                 upSent, upWritten, clSent, arrivals, upArrivals, clientCloseCalls,
                 upCloseCalls, callerGone>>
  /\ UNCHANGED <<clientVars, hookVars, codecVars>>

\* clientWs.onopen: creates the upstream socket and installs its handlers
clientOnopen ==
  /\ clientReady = "CONNECTING"
  /\ clientReady' = "OPEN"
  /\ upstream' = "ws"
  /\ upReady' = "CONNECTING"
  /\ UNCHANGED <<httpStatus, request, binaryType, upOpened, upErrored, pendingQueue,
                 blobPending, upSent, upWritten, clSent, arrivals, upArrivals,
                 clientCloseCalls, upCloseCalls, callerGone>>
  /\ UNCHANGED <<clientVars, hookVars, codecVars>>

\* upstream && upstream.readyState === WS.OPEN
UpstreamReady == upstream # "null" /\ upReady = "OPEN"

\* A relayed frame: id is the arrival number of the message (its bytes on
\* arrival are taken to be id), bytes what the frame holds now, and shared
\* tells whether the frame is a view of the transport's buffer (TRUE) or owns
\* its bytes (FALSE).
Frame(i, k, sh) == [id |-> i, kind |-> k, bytes |-> i, shared |-> sh]

\* toUint8Array of an ArrayBuffer: new Uint8Array(data), a view of data
toUint8Array(i) == Frame(i, "binary", TRUE)

\* new Uint8Array(bytes) of a typed array: a copy
CopyOf(f) == [f EXCEPT !.shared = FALSE]

\* clientWs.onmessage for message number i of representation rep
\* ("arraybuffer", "blob" or "text"). A binary message is sent as the view
\* toUint8Array made when the upstream is ready, else a copy of it is queued;
\* a string is sent when the upstream is ready (there is no else); a Blob is
\* converted first. Messages are delivered while the caller socket is OPEN.
clientOnmessage(rep) ==
  /\ clientReady = "OPEN"
  /\ Len(arrivals) < MaxCallerFrames
  /\ rep \in {"text", binaryType}
  /\ LET i == Len(arrivals) + 1
     IN /\ arrivals' = Append(arrivals, [rep |-> rep, early |-> ~upOpened])
        /\ CASE rep = "arraybuffer" ->
                  /\ IF UpstreamReady
                     THEN /\ upSent' = Append(upSent, toUint8Array(i))
                          /\ UNCHANGED pendingQueue
                     ELSE /\ pendingQueue' = Append(pendingQueue, CopyOf(toUint8Array(i)))
                          /\ UNCHANGED upSent
                  /\ UNCHANGED blobPending
             [] rep = "text" ->
                  /\ upSent' = IF UpstreamReady
                               THEN Append(upSent, Frame(i, "text", FALSE)) ELSE upSent
                  /\ UNCHANGED <<pendingQueue, blobPending>>
             [] rep = "blob" ->
                  /\ blobPending' = Append(blobPending, i)
                  /\ UNCHANGED <<upSent, pendingQueue>>
  /\ UNCHANGED <<httpStatus, request, binaryType, clientReady, upstream, upReady,
                 upOpened, upErrored, upWritten, clSent, upArrivals,
                 clientCloseCalls, upCloseCalls, callerGone>>
  /\ UNCHANGED <<clientVars, hookVars, codecVars>>

\* data.arrayBuffer().then(...): the conversion of the oldest pending Blob
\* resolves; its bytes are in a buffer of its own
blobResolved ==
  /\ blobPending # <<>>
  /\ LET f == Frame(Head(blobPending), "binary", FALSE)
     IN IF UpstreamReady
        THEN upSent' = Append(upSent, f) /\ UNCHANGED pendingQueue
        ELSE pendingQueue' = Append(pendingQueue, f) /\ UNCHANGED upSent
  /\ blobPending' = Tail(blobPending)
  /\ UNCHANGED <<httpStatus, request, binaryType, clientReady, upstream, upReady,
                 upOpened, upErrored, upWritten, clSent, arrivals, upArrivals,
                 clientCloseCalls, upCloseCalls, callerGone>>
  /\ UNCHANGED <<clientVars, hookVars, codecVars>>

\* upstream.on("open"): sends the queue in order with upstream!.send and empties
\* it. When clientWs.onclose has set upstream to null and the queue is not
\* empty, the first send throws and the handler ends there.
upstreamOnOpen ==
  /\ upReady = "CONNECTING"
  /\ upReady' = "OPEN"
  /\ upOpened' = TRUE
  /\ IF upstream = "null" /\ pendingQueue # <<>>
     THEN UNCHANGED <<upSent, pendingQueue>>
     ELSE upSent' = upSent \o pendingQueue /\ pendingQueue' = <<>>
  /\ UNCHANGED <<httpStatus, request, binaryType, clientReady, upstream, upErrored,
                 blobPending, upWritten, clSent, arrivals, upArrivals,
                 clientCloseCalls, upCloseCalls, callerGone>>
  /\ UNCHANGED <<clientVars, hookVars, codecVars>>

CallerOpen_NotClosed == clientReady \in {"OPEN", "CLOSING"}

\* clientWs.readyState === WebSocket.OPEN
CallerOpen == clientReady = "OPEN"

\* upstream.on("message"): forwards a fresh copy to the caller when it is open
upstreamOnMessage ==
  /\ upReady = "OPEN"
  /\ upArrivals < MaxUpstreamFrames
  /\ upArrivals' = upArrivals + 1
  /\ clSent' = IF CallerOpen
               THEN Append(clSent, CopyOf(Frame(upArrivals + 1, "binary", TRUE)))
               ELSE clSent
  /\ UNCHANGED <<httpStatus, request, binaryType, clientReady, upstream, upReady,
                 upOpened, upErrored, pendingQueue, blobPending, upSent, upWritten,
                 arrivals, clientCloseCalls, upCloseCalls, callerGone>>
  /\ UNCHANGED <<clientVars, hookVars, codecVars>>

\* clientWs.close(code, reason) when the caller socket is open
CloseCaller(code) ==
  IF CallerOpen
  THEN /\ clientReady' = "CLOSING"
       /\ clientCloseCalls' = Append(clientCloseCalls, code)
  ELSE UNCHANGED <<clientReady, clientCloseCalls>>

\* upstream.on("error"): the ws socket emits error (readyState CLOSING) and
\* closes afterwards. Handler: clientWs.close(1011, "Upstream error")
upstreamOnError ==
  /\ upReady \in {"CONNECTING", "OPEN", "CLOSING"}
  /\ ~upErrored
  /\ upReady' = "CLOSING"
  /\ upErrored' = TRUE
  /\ CloseCaller(1011)
  /\ UNCHANGED <<httpStatus, request, binaryType, upstream, upOpened, pendingQueue,
                 blobPending, upSent, upWritten, clSent, arrivals, upArrivals,
                 upCloseCalls, callerGone>>
  /\ UNCHANGED <<clientVars, hookVars, codecVars>>

\* upstream.on("close"): the upstream socket is closed, by the engine, after an
\* error, or completing upstream.close().
\* Handler: clientWs.close(1000, "ASR session ended")
upstreamOnClose ==
  /\ upReady \in {"OPEN", "CLOSING"}
  /\ upReady' = "CLOSED"
  /\ CloseCaller(1000)
  /\ UNCHANGED <<httpStatus, request, binaryType, upstream, upOpened, upErrored,
                 pendingQueue, blobPending, upSent, upWritten, clSent, arrivals,
                 upArrivals, upCloseCalls, callerGone>>
  /\ UNCHANGED <<clientVars, hookVars, codecVars>>

\* clientWs.onclose: closes the upstream when it is open, and forgets it
clientOnclose ==
  /\ clientReady \in {"CONNECTING", "OPEN", "CLOSING"}
  /\ clientReady' = "CLOSED"
  /\ IF UpstreamReady
     THEN upReady' = "CLOSING" /\ upCloseCalls' = upCloseCalls + 1
     ELSE UNCHANGED <<upReady, upCloseCalls>>
  /\ upstream' = "null"
  /\ callerGone' = TRUE
  /\ UNCHANGED <<httpStatus, request, binaryType, upOpened, upErrored, pendingQueue,
                 blobPending, upSent, upWritten, clSent, arrivals, upArrivals,
                 clientCloseCalls>>
  /\ UNCHANGED <<clientVars, hookVars, codecVars>>

\* The upstream socket writes out the oldest frame handed to send that it has
\* not written yet (send returns before the bytes are on the wire).
upstreamWrites ==
  /\ upReady = "OPEN"
  /\ upWritten < Len(upSent)
  /\ upWritten' = upWritten + 1
  /\ UNCHANGED <<httpStatus, request, binaryType, clientReady, upstream, upReady,
                 upOpened, upErrored, pendingQueue, blobPending, upSent, clSent,
                 arrivals, upArrivals, clientCloseCalls, upCloseCalls, callerGone>>
  /\ UNCHANGED <<clientVars, hookVars, codecVars>>

\* The caller-side transport reuses the buffer it delivered message i in, after
\* the message callback has returned: every frame that is still a view of that
\* buffer and not yet written out now holds other bytes (0).
Overwritten(q, i, from) ==
  [k \in 1..Len(q) |->
     IF k > from /\ q[k].id = i /\ q[k].shared THEN [q[k] EXCEPT !.bytes = 0]
     ELSE q[k]]

transportReuses(i) ==
  /\ i \in 1..Len(arrivals)
  /\ \/ Overwritten(upSent, i, upWritten) # upSent
     \/ Overwritten(pendingQueue, i, 0) # pendingQueue
  /\ upSent' = Overwritten(upSent, i, upWritten)
  /\ pendingQueue' = Overwritten(pendingQueue, i, 0)
  /\ UNCHANGED <<httpStatus, request, binaryType, clientReady, upstream, upReady,
                 upOpened, upErrored, blobPending, upWritten, clSent, arrivals,
                 upArrivals, clientCloseCalls, upCloseCalls, callerGone>>
  /\ UNCHANGED <<clientVars, hookVars, codecVars>>

RelayNext ==
  \/ \E req \in Requests, bt \in {"arraybuffer", "blob"} : Serve(req, bt)
  \/ clientOnopen
  \/ \E rep \in {"arraybuffer", "blob", "text"} : clientOnmessage(rep)
  \/ blobResolved
  \/ upstreamOnOpen
  \/ upstreamOnMessage
  \/ upstreamOnError
  \/ upstreamOnClose
  \/ clientOnclose
  \/ upstreamWrites
  \/ \E i \in 1..MaxCallerFrames : transportReuses(i)

ClientNext ==
  \/ \E constructs \in BOOLEAN : connect(constructs)
  \/ disconnect
  \/ \E a \in AudioInputs : sendAudio(a[1], a[2])
  \/ \E s \in SocketIds : onopen(s)
  \/ \E s \in SocketIds, re \in Reentries : onerror(s, re)
  \/ \E s \in SocketIds : onclose(s)
  \/ \E s \in SocketIds, data \in ControlFrames, re \in Reentries :
       onmessage(s, data, re)

HookNext ==
  \/ \E constructs \in BOOLEAN : startSession(constructs)
  \/ \E k \in SessionIds : hookOnopen(k)
  \/ \E k \in SessionIds, granted \in BOOLEAN : getUserMedia(k, granted)
  \/ \E k \in SessionIds : hookOnerror(k)
  \/ \E k \in SessionIds : hookOnclose(k)
  \/ \E k \in SessionIds, data \in HookFrames : hookOnmessage(k, data)
  \/ reset

\* The hook's sessions from their start to the end of the wait that
\* stopSession sets up, with the frames the server sends meanwhile. The
\* microphone is left out: stopSession releases it, and nothing else in these
\* actions reads it.
StopNext ==
  \/ \E constructs \in BOOLEAN : startSession(constructs)
  \/ \E k \in SessionIds : hookOnopen(k)
  \/ \E k \in SessionIds : hookOnclose(k)
  \/ \E k \in SessionIds, data \in HookFrames : hookOnmessage(k, data)
  \/ stopSession
  \/ \E i \in StopIds : tick(i)
  \/ reset

\* The receiving side of the client: every frame of ServerFrames arrives on
\* its sockets. sendAudio is left out: it writes only the sequence counter
\* and the frames sent, which no handler of a received frame reads.
ReceiveNext ==
  \/ \E constructs \in BOOLEAN : connect(constructs)
  \/ disconnect
  \/ \E s \in SocketIds : onopen(s)
  \/ \E s \in SocketIds : onerror(s, "none")
  \/ \E s \in SocketIds : onclose(s)
  \/ \E s \in SocketIds, data \in ServerFrames : onmessage(s, data, "none")

\* connect() and the outcomes of its socket, among them the closure of a
\* socket that has not opened with no error event before its close event
ConnectNext ==
  \/ \E constructs \in BOOLEAN : connect(constructs)
  \/ disconnect
  \/ \E s \in SocketIds : onopen(s)
  \/ \E s \in SocketIds, re \in Reentries : onerror(s, re)
  \/ \E s \in SocketIds : onclose(s)
  \/ \E s \in SocketIds : oncloseUnopened(s)

SpecClient == Init /\ [][ClientNext]_vars

SpecConnect == Init /\ [][ConnectNext]_vars

\* what the transport delivers for socket s: its open event, its error event
\* and the close event that follows, or a close event alone
Outcome(s) ==
  onopen(s) \/ onerror(s, "none") \/ onclose(s) \/ oncloseUnopened(s)

\* The transport's scheduling: every connection attempt ends (it opens, it
\* fails or it is closed; the browser bounds the time it takes), and the
\* close event that follows an error event is delivered. Nothing obliges the
\* caller to call connect() or disconnect().
FairSpecConnect ==
  /\ SpecConnect
  /\ \A s \in SocketIds : WF_vars(Outcome(s))

SpecReceive == Init /\ [][ReceiveNext]_vars

SpecCodec == Init /\ [][CodecNext]_vars

SpecHook == Init /\ [][HookNext]_vars

SpecStop == Init /\ [][StopNext]_vars

SpecRelay == Init /\ [][RelayNext]_vars

\* The relay's scheduling: an upstream connection attempt ends (it opens unless
\* it fails), a closing upstream completes its closure, a pending Blob
\* conversion resolves and the upstream socket writes out what it was handed.
\* Nothing obliges the engine or the caller to send, fail or close.
FairSpecRelay ==
  /\ SpecRelay
  /\ WF_vars(upstreamOnOpen)
  /\ WF_vars(upReady = "CLOSING" /\ upstreamOnClose)
  /\ WF_vars(blobResolved)
  /\ WF_vars(upstreamWrites)

(***************************************************************************)
(* Properties                                                              *)
(***************************************************************************)
AudioFramesOf(s) ==
  SelectSeq(sent[s], LAMBDA f : f.messageType = AUDIO_ONLY_REQUEST)

\* C1: on every socket (session) of the client, the i-th audio frame
\* transmitted carries sequence number i+1 (2, 3, 4, ...), negated when the
\* frame is the one of a call with isLast = true.
C1_SequenceNumbers ==
  \A s \in SocketIds :
    LET a == AudioFramesOf(s)
    IN \A i \in 1..Len(a) :
         a[i].word = IF a[i].flags = NEG_SEQUENCE THEN -(i + 1) ELSE i + 1

\* C1 witness: a second session on the same client has sent 2 and then -3,
\* after the first session had sent audio too
C1_Witness ==
  /\ nConnects >= 2
  /\ Len(AudioFramesOf(1)) >= 1
  /\ Len(AudioFramesOf(2)) = 2
  /\ AudioFramesOf(2)[1].word = 2
  /\ AudioFramesOf(2)[2].word = -3

\* a step in which sendAudio transmitted a frame on socket s
AudioTransmitted(s) ==
  /\ Len(sent'[s]) = Len(sent[s]) + 1
  /\ sent'[s][Len(sent'[s])].messageType = AUDIO_ONLY_REQUEST

Ids(q) == {q[k].id : k \in 1..Len(q)}

Range(q) == {q[k] : k \in 1..Len(q)}

EarlyFrames == {i \in 1..Len(arrivals) : arrivals[i].early}

NoDuplicates(q) == \A j, k \in 1..Len(q) : j # k => q[j].id # q[k].id

\* C3: once the upstream-open flush has run, the frames the caller sent
\* before the upstream opened are the first frames handed to the upstream, in
\* arrival order, each once, ahead of every later frame.
C3_FlushDeliversEarlyFrames ==
  upOpened =>
    /\ Len(upSent) >= Cardinality(EarlyFrames)
    /\ \A k \in 1..Cardinality(EarlyFrames) : upSent[k].id = k
    /\ NoDuplicates(upSent)

Increasing(q) == \A j, k \in 1..Len(q) : j < k => q[j].id < q[k].id

\* C4: in each direction the frames are handed on in the order they arrived:
\* the frames sent to the upstream are in the caller's arrival order, the
\* frames sent to the caller in the upstream's arrival order.
C4_OrderPreserved == Increasing(upSent) /\ Increasing(clSent)

\* C5: a frame that arrived from the caller before the upstream opened, binary
\* or text, is never discarded: it is in the pending buffer, being converted,
\* or has been handed to the upstream.
C5_NoEarlyFrameDiscarded ==
  \A i \in EarlyFrames : i \in Ids(pendingQueue) \cup Range(blobPending) \cup Ids(upSent)

\* C6: after the caller socket has closed, the upstream socket is eventually
\* closed (or was never created).
C6_CallerCloseClosesUpstream == callerGone ~> (upReady \in {"NONE", "CLOSED"})

\* C7: an upstream close event with the caller socket open closes the caller
\* socket with 1000, an upstream error event with the caller socket open
\* closes it with 1011, and the relay calls close on the caller socket at
\* most once.
C7_UpstreamEndClosesCallerOnce ==
  [][/\ (upReady # "CLOSED" /\ upReady' = "CLOSED" /\ clientReady = "OPEN") =>
          /\ clientCloseCalls' = Append(clientCloseCalls, 1000)
          /\ clientReady' = "CLOSING"
     /\ (~upErrored /\ upErrored' /\ clientReady = "OPEN") =>
          /\ clientCloseCalls' = Append(clientCloseCalls, 1011)
          /\ clientReady' = "CLOSING"
     /\ Len(clientCloseCalls') <= 1]_vars

\* C7 witness: the upstream reported an error and then closed; the caller
\* socket was closed once, with 1011
C7_Witness ==
  /\ upErrored
  /\ upReady = "CLOSED"
  /\ clientCloseCalls = <<1011>>

\* C8: a request without Upgrade: websocket gets 426, an upgrade request with
\* a credential missing gets 500, and in both cases there is no caller socket
\* and no upstream connection.
C8_HttpRejections ==
  httpStatus # 0 =>
    /\ request.upgrade \notin {"websocket", "WebSocket"} => httpStatus = 426
    /\ (request.upgrade \in {"websocket", "WebSocket"}
          /\ (~request.appKey \/ ~request.accessKey)) => httpStatus = 500
    /\ httpStatus \in {426, 500} =>
         clientReady = "NONE" /\ upReady = "NONE" /\ upstream = "null"

\* C8 witness: a request that is no upgrade and has no credentials either
\* was answered with 426
C8_Witness ==
  /\ httpStatus = 426
  /\ ~request.appKey
  /\ ~request.accessKey

\* C9: every frame queued or forwarded owns its bytes (it is no view of the
\* transport's buffer), and the bytes written out or sent on are the bytes
\* that arrived.
C9_FramesAreIndependentCopies ==
  /\ \A f \in Range(pendingQueue) \cup Range(upSent) \cup Range(clSent) : ~f.shared
  /\ \A k \in 1..upWritten : upSent[k].bytes = upSent[k].id
  /\ \A f \in Range(clSent) : f.bytes = f.id

\* C10: a connect() promise is resolved only when its socket has opened and
\* the configuration frame was handed to it first; the promise of a socket
\* that closed without opening, or that could not be constructed, is rejected.
C10_ConnectPromise ==
  \A c \in SocketIds :
    /\ promise[c] = "resolved" =>
         /\ opened[c]
         /\ Len(sent[c]) >= 1
         /\ sent[c][1].messageType = FULL_CLIENT_REQUEST
    /\ (readyState[c] = "CLOSED" /\ ~opened[c]) => promise[c] = "rejected"
    /\ (c <= nConnects /\ readyState[c] = "NONE") => promise[c] = "rejected"

\* C10 witness: one connect() resolved, another was rejected because its
\* socket closed without opening
C10_Witness ==
  \E c, d \in SocketIds :
    /\ promise[c] = "resolved"
    /\ promise[d] = "rejected"
    /\ readyState[d] = "CLOSED"
    /\ ~opened[d]

(***************************************************************************)
(* Client: disconnect, errors and closes                                   *)
(***************************************************************************)
IsStateChange(e) == e[1] = "onStateChange"

IsError(e) == e[1] = "onError"

\* the onError invocations of a handler
OnErrors(f) == SelectSeq(f, IsError)

\* the states the client passes through in a step: the state before it, then
\* the argument of every onStateChange the step invoked
Passed(st, f) ==
  LET sc == SelectSeq(f, IsStateChange)
  IN <<st>> \o [i \in 1..Len(sc) |-> sc[i][2]]

\* the step passes from state a directly to state b
Moves(st, f, a, b) ==
  \E i \in 1..Len(Passed(st, f)) - 1 :
    Passed(st, f)[i] = a /\ Passed(st, f)[i + 1] = b

SocketEvents == {"onopen", "onerror", "onclose", "onclose-after-error",
                 "onmessage", "onmessage-error"}

NotLive(rs, s) == rs[s] \notin {"CONNECTING", "OPEN"}

\* C12: disconnect(), from any state, leaves the state idle and the client
\* holding no socket, the socket it held being no longer connecting or open;
\* a disconnect() right after a disconnect() changes nothing
C12_DisconnectIdempotent ==
  [][op'.name = "disconnect" =>
       /\ state' = "idle"
       /\ ws' = 0
       /\ ws # 0 => NotLive(readyState', ws)
       /\ op.name = "disconnect" =>
            UNCHANGED <<state, ws, readyState, mustFail, released, sent,
                        sequenceCounter, promise>>]_vars

C12_Witness ==
  /\ op.name = "disconnect"
  /\ op.s = 0
  /\ \E s \in SocketIds : released[s] /\ readyState[s] = "CLOSING"

\* C13: a socket event of a socket that disconnect() has closed invokes no
\* callback
C13_NoCallbackAfterDisconnect ==
  [][(op'.name \in SocketEvents /\ released[op'.s]) => fired' = <<>>]_vars

\* C14: a handler in which an onError or onStateChange callback called
\* disconnect() ends with the state idle, no socket held and the socket that
\* was held no longer connecting or open
C14_ReentrantDisconnect ==
  [][op'.re # "none" =>
       /\ state' = "idle"
       /\ ws' = 0
       /\ ws # 0 => NotLive(readyState', ws) /\ released'[ws]]_vars

C14_Witness ==
  /\ op.name = "onerror"
  /\ op.re = "inOnError"
  /\ state = "idle"
  /\ \E s \in SocketIds : s # op.s /\ released[s] /\ readyState[s] = "CLOSING"

\* C15: sendAudio puts a frame on a socket only when the client's state is
\* connected or recognizing
C15_AudioOnlyWhenConnected ==
  [][(op'.name = "sendAudio" /\ sent' # sent) =>
       state \in {"connected", "recognizing"}]_vars

\* C16: a transport error event and a server-error frame each leave the
\* client's state error (when no callback disconnects)
C16_FailureSetsError ==
  [][(op'.name \in {"onerror", "onmessage-error"} /\ op'.re = "none") =>
       state' = "error"]_vars

\* a step that is a failure: a transport error event, a failed construction
\* or a server-error frame
IsFailure(o, p) ==
  \/ o.name \in {"onerror", "onmessage-error"}
  \/ o.name = "connect" /\ p[o.s] = "rejected"

\* C17 as stated: every failure invokes onError exactly once, no other step
\* invokes it, and for a server-error frame the text is the frame's payload
C17_OnErrorCarriesPayload ==
  [][/\ Len(OnErrors(fired')) = IF IsFailure(op', promise') THEN 1 ELSE 0
     /\ op'.name = "onmessage-error" => OnErrors(fired') = <<Error(op'.arg)>>]_vars

\* C17: every failure invokes onError exactly once, no other step invokes
\* it, and for a server-error frame the text is the frame's payload when it
\* has one and the fixed text otherwise
C17_OneOnErrorPerFailure ==
  [][/\ Len(OnErrors(fired')) = IF IsFailure(op', promise') THEN 1 ELSE 0
     /\ op'.name = "onmessage-error" =>
          OnErrors(fired') = <<Error(IF op'.arg # NoPayload /\ op'.arg # <<>>
                                     THEN op'.arg ELSE MsgServiceError)>>
     /\ op'.name = "onerror" => OnErrors(fired') = <<Error(MsgConnectionFailed)>>]_vars

C17_Witness ==
  /\ op.name = "onmessage-error"
  /\ op.arg = NoPayload
  /\ fired = <<Error(MsgServiceError)>>

\* C18: the state passes from error to idle only in disconnect(), called by
\* the caller, by connect() or by a callback
C18_ErrorLeftOnlyByDisconnect ==
  [][Moves(state, fired', "error", "idle") =>
       op'.name \in {"disconnect", "connect"} \/ op'.re # "none"]_vars

\* C19: the state never passes from idle directly to error (error is entered
\* only from connecting, connected or recognizing)
C19_ErrorEnteredFromActive ==
  [][~Moves(state, fired', "idle", "error")]_vars

\* C20: the close event of a socket that neither failed nor was closed by
\* disconnect() invokes onError and leaves the state error
C20_UnexpectedCloseSurfaced ==
  [][(op'.name = "onclose" /\ ~released[op'.s]) =>
       OnErrors(fired') # <<>> /\ state' = "error"]_vars

(***************************************************************************)
(* Hook: sessions                                                          *)
(***************************************************************************)
\* the sockets of the hook's clients that are connecting or open
LiveTransports ==
  {k \in SessionIds : clients[k].rs[k] \in {"CONNECTING", "OPEN"}}

\* C11: at most one socket of the hook's clients is connecting or open, and
\* at most one microphone stream is live
C11_AtMostOneTransport ==
  /\ Cardinality(LiveTransports) <= 1
  /\ Cardinality(liveStreams) <= 1

(***************************************************************************)
(* Codec: decoding                                                         *)
(***************************************************************************)
\* C25: parseServerResponse on a buffer of 0, 1, 2 or 3 bytes does not throw
\* and returns no payload
C25_ShortBufferDecodes ==
  (codecIn.call = "parse" /\ Len(codecIn.data) < 4) =>
    ~codecOut.thrown /\ codecOut.payload = NoPayload

C27_RoundTrip ==
  codecIn.call = "roundTrip" =>
    /\ codecOut = Parsed(FULL_CLIENT_REQUEST, NO_SEQUENCE, JSON_SERIALIZATION,
                         NO_COMPRESSION, codecIn.text)
    /\ codecIn.data[1] % 16 = HEADER_SIZE_1

C27_Witness ==
  /\ codecIn.call = "roundTrip"
  /\ codecIn.text = <<123, 34, 20320, 125>>
  /\ codecOut.payload = codecIn.text

(***************************************************************************)
(* Client: received frames                                                 *)
(***************************************************************************)
IsResult(e) == e[1] \in {"onPartialResult", "onFinalResult"}

\* the result callbacks of a handler
Results(f) == SelectSeq(f, IsResult)

\* the message type written in a frame of at least 4 bytes
TypeOf(data) == (data[2] \div 16) % 16

\* the fields a received frame must leave alone
ClientUntouched ==
  UNCHANGED <<state, ws, sequenceCounter, readyState, sent, promise, released>>

\* C21: a full-server-response frame whose payload is JSON invokes exactly
\* one callback: onFinalResult(text, utterances) when definite is true,
\* onPartialResult(text) when definite is false or absent
C21_OneResultCallback ==
  [][op'.name = "onmessage" =>
       /\ op'.data = ResultFrame(TextPartial) => fired' = <<PartialResult(NiHao)>>
       /\ op'.data = ResultFrame(TextFinal) =>
            fired' = <<FinalResult(NiHao, <<[text |-> NiHao, definite |-> TRUE]>>)>>
       /\ op'.data = ResultFrame(TextNoDefinite) =>
            fired' = <<PartialResult(<<20320>>)>>
       /\ op'.data = ResultFrame(TextNested) =>
            fired' = <<FinalResult(<<22909>>, <<>>)>>
       /\ op'.data = ResultFrame(TextEmptyObject) =>
            fired' = <<PartialResult(<<>>)>>]_vars

C21_Witness ==
  /\ op.name = "onmessage"
  /\ op.data = ResultFrame(TextFinal)
  /\ Len(fired) = 1
  /\ fired[1][1] = "onFinalResult"
  /\ nMessages = 2

\* C23: a server-ack frame and a frame of unknown type invoke no callback and
\* change neither the state, the sequence counter nor the socket, which stays
\* open for the frames that follow
C23_AckAndUnknownIgnored ==
  [][(op'.name = "onmessage" /\ Len(op'.data) >= 4
      /\ TypeOf(op'.data) \in {SERVER_ACK, UNKNOWN_TYPE}) =>
       /\ fired' = <<>>
       /\ ClientUntouched
       /\ readyState'[op'.s] = "OPEN"]_vars

C23_Witness ==
  /\ op.name = "onmessage"
  /\ Len(op.data) >= 4
  /\ TypeOf(op.data) = UNKNOWN_TYPE
  /\ sequenceCounter > InitialSequence
  /\ state = "recognizing"
  /\ readyState[op.s] = "OPEN"
  /\ nMessages < MaxMessages

\* C24: a full-server-response frame whose payload is not JSON invokes no
\* callback and changes neither the state nor the socket, which stays open
\* for the frames that follow
C24_BadJsonSwallowed ==
  [][(op'.name = "onmessage" /\ op'.data = ResultFrame(TextNotJson)) =>
       /\ fired' = <<>>
       /\ ClientUntouched
       /\ readyState'[op'.s] = "OPEN"]_vars

C24_Witness ==
  /\ op.name = "onmessage"
  /\ op.data = ResultFrame(TextNotJson)
  /\ op.arg = TextNotJson
  /\ state = "recognizing"
  /\ readyState[op.s] = "OPEN"
  /\ nMessages < MaxMessages

\* C28: for a gzip frame the decoder returns the fixed text, never the
\* payload as text, and the client invokes no result callback
C28_GzipNotDecoded ==
  [][(op'.name = "onmessage" /\ Len(op'.data) >= 4
      /\ op'.data[3] % 16 = GZIP_COMPRESSION) =>
       /\ op'.arg = GzipSentinel
       /\ Results(fired') = <<>>]_vars

C28_Witness ==
  /\ op.name = "onmessage"
  /\ op.data = GzipFrame
  /\ op.arg = GzipSentinel
  /\ fired = <<>>

(***************************************************************************)
(* Hook: results and the wait after stopSession                            *)
(***************************************************************************)
\* C22: a full-server-response frame with definite = true leaves the state
\* of the session as it is, the socket open for further results, and clears
\* the partial text the hook holds
C22_FinalKeepsStateClearsPartial ==
  [][(hookOp'.name = "onmessage" /\ hookOp'.data = ResultFrame(TextFinal)) =>
       /\ hookState' = hookState
       /\ clients'[hookOp'.k].state = clients[hookOp'.k].state
       /\ clients'[hookOp'.k].rs[hookOp'.k] = "OPEN"
       /\ partialText' = <<>>
       /\ finalText' = NiHao]_vars

C22_Witness ==
  /\ hookOp.name = "onmessage"
  /\ hookOp.data = ResultFrame(TextFinal)
  /\ hookState = "recognizing"
  /\ clients[hookOp.k].state = "recognizing"
  /\ partialText = <<>>
  /\ finalText = NiHao

\* C29: with no frame received since stopSession, the interval disconnects
\* the client exactly when the waited time reaches maxWait, not before
C29_DisconnectAtMaxWait ==
  [][(hookOp'.name = "tick" /\ timers[hookOp'.k].quiet /\ clientRef # 0) =>
       (clientRef' = 0 <=> timers[hookOp'.k].waited + checkInterval >= maxWait)]_vars

\* C30: when the waited time reaches maxWait and there is no final text, the
\* caller gets exactly one onError and the partial text stays
C30_TimeoutNotified ==
  [][(hookOp'.name = "tick" /\ clientRef # 0 /\ finalText = <<>>
      /\ timers[hookOp'.k].waited + checkInterval >= maxWait) =>
       /\ Len(OnErrors(hookOp'.fired)) = 1
       /\ partialText' = partialText]_vars

(***************************************************************************)
(* Client: sockets and sessions                                            *)
(***************************************************************************)
\* the sockets constructed so far
Created(rs) == {s \in SocketIds : rs[s] # "NONE"}

\* C31 as stated: no step but connect() creates a socket, and the number of
\* sockets created equals the number of connect() calls
C31_SocketPerConnect ==
  [][/\ Created(readyState') # Created(readyState) => op'.name = "connect"
     /\ Cardinality(Created(readyState')) = nConnects']_vars

\* C31: a step creates a socket only when it is a connect() whose WebSocket
\* constructor does not throw, and then exactly one; no socket event, frame,
\* disconnect() or sendAudio creates one
C31_SocketPerConstruction ==
  [][Cardinality(Created(readyState')) - Cardinality(Created(readyState)) =
       IF op'.name = "connect" /\ OnErrors(fired') = <<>> THEN 1 ELSE 0]_vars

\* C31 witness: a socket has failed and closed, a later connect() could not
\* construct its socket, and the only socket created is the first one
C31_Witness ==
  /\ nConnects = 2
  /\ Created(readyState) = {1}
  /\ readyState[1] = "CLOSED"
  /\ op.name = "connect"
  /\ fired[Len(fired)] = Error(MsgCannotCreate)

\* C32: when the socket of a connect() opens, the states observed since that
\* connect() are connecting, connected, recognizing with none in between (the
\* state is still connecting when the socket opens, and the handler passes
\* connected and recognizing), and the configuration frame is the first frame
\* on every socket
C32_OpeningSequence ==
  [][/\ op'.name = "onopen" =>
          /\ state = "connecting"
          /\ fired' = <<StateChange("connected"), StateChange("recognizing")>>
          /\ sent[op'.s] = <<>>
     /\ \A s \in SocketIds :
          sent'[s] # <<>> => sent'[s][1].messageType = FULL_CLIENT_REQUEST]_vars

\* C33: on every socket (session) at most one audio frame carries a negated
\* sequence number, and it is the last audio frame transmitted
C33_OneTerminalFrame ==
  \A s \in SocketIds :
    LET a == AudioFramesOf(s)
    IN \A i \in 1..Len(a) : a[i].flags = NEG_SEQUENCE => i = Len(a)

(***************************************************************************)
(* Hook: the wait after stopSession and later sessions                     *)
(***************************************************************************)
\* C34: when a definite result has been delivered during the wait (there was
\* no final text at stopSession, there is one now), the next callback of the
\* interval disconnects the client
C34_FinalResultEndsWait ==
  [][(hookOp'.name = "tick" /\ clientRef # 0
      /\ ~timers[hookOp'.k].final /\ finalText # <<>>) =>
       clientRef' = 0]_vars

\* C35: the interval set by a stopSession disconnects and clears only the
\* client that was in clientRef at that stopSession
C35_TimerKeepsToItsSession ==
  [][(hookOp'.name = "tick" /\ clientRef # 0 /\ clientRef' = 0) =>
       timers[hookOp'.k].session = clientRef]_vars

(***************************************************************************)
(* Client: events of a replaced socket                                     *)
(***************************************************************************)
\* C36: while the socket the client holds is open, an event of another (old)
\* socket changes neither the state nor invokes a callback
C36_OldSocketEventsIgnored ==
  [][(op'.name \in SocketEvents /\ ws # 0 /\ op'.s # ws
      /\ readyState[ws] = "OPEN") =>
       state' = state /\ fired' = <<>>]_vars

(***************************************************************************)
(* Client: the promise of connect()                                        *)
(***************************************************************************)
Settled(c) == promise[c] \in {"resolved", "rejected"}

C38_BufferOnlyBeforeOpen ==
  [][/\ Len(pendingQueue') > Len(pendingQueue) => ~upOpened
     /\ (upOpened /\ pendingQueue = <<>>) => pendingQueue' = <<>>]_vars

(***************************************************************************)
(* Client: truncated frames                                                *)
(***************************************************************************)
\* C39: for a full-server-response frame of at least 4 bytes that ends before
\* its size word or before the end of the payload it declares, the decoder
\* returns the header fields with no payload and does not throw, and the
\* client invokes no callback and changes nothing
C39_TruncatedFrameDropped ==
  [][(op'.name = "onmessage" /\ op'.data \in TruncatedFrames) =>
       /\ Responses[op'.data] =
            Parsed(SERVER_FULL_RESPONSE, op'.data[2] % 16, JSON_SERIALIZATION,
                   NO_COMPRESSION, NoPayload)
       /\ fired' = <<>>
       /\ ClientUntouched]_vars

C39_Witness ==
  /\ op.name = "onmessage"
  /\ op.data = SubSeq(ResultFrame(TextFinal), 1, Len(ResultFrame(TextFinal)) - 1)
  /\ op.arg = NoPayload
  /\ fired = <<>>
  /\ state = "recognizing"

====
